---------------------------- MODULE Spec2Model ----------------------------
(***************************************************************************)
(* Model of the ChefCloud desktop print command                            *)
(* (apps/desktop/src-tauri/src/main.rs): load_printer_config, the three    *)
(* tier settings lookup, and print_receipt, which decodes a base64 payload *)
(* and either reports its size (simulate mode) or writes it to a TCP       *)
(* connection.                                                             *)
(*                                                                         *)
(* Strings whose characters matter (the base64 payload, PRINTER_PORT) are  *)
(* sequences of one-character strings.  Strings that are only compared or  *)
(* copied (PRINTER_SIMULATE, host names, message templates) are strings.   *)
(***************************************************************************)
EXTENDS Integers, Sequences, FiniteSets, TLC

(***************************************************************************)
(* Bounds of the model.                                                    *)
(***************************************************************************)
\* longest base64 input enumerated character by character
MaxLen == 4
\* longest byte string whose encoding is offered as an input
MaxBytes == 3
\* number of print_receipt invocations that may be in flight together
NumInvocations == 2
\* number of times the config file is rewritten while requests are served
MaxEdits == 1

(***************************************************************************)
(* Program constants.                                                      *)
(***************************************************************************)
DefaultPort == 9100
U16Max == 65535
DefaultHost == "127.0.0.1"
DefaultSimulate == TRUE

Invocations == 1..NumInvocations

(***************************************************************************)
(* State.                                                                  *)
(***************************************************************************)
VARIABLES
    env,          \* PRINTER_SIMULATE, PRINTER_HOST, PRINTER_PORT as env::var sees them
    fs,           \* the home directory and ~/.chefcloud/printer.json
    edits,        \* how often the config file has been rewritten
    pc,           \* each invocation's position in print_receipt
    base64_data,  \* each invocation's argument
    config,       \* each invocation's local `config`
    bytes,        \* each invocation's local `bytes`
    stream,       \* each invocation's local `stream`: a socket id, 0 when none
    result,       \* each invocation's returned Result<String, String>
    sockets,      \* every TCP connection established so far
    stdout,       \* lines printed by println!
    connects,     \* per invocation: calls of TcpStream::connect
    writes,       \* per invocation: calls of write_all
    opened,       \* per invocation: ids of the sockets it opened
    returns,      \* per invocation: results handed back to the caller
    seen          \* per invocation: the config file as its resolver found it

vars == <<env, fs, edits, pc, base64_data, config, bytes, stream, result,
          sockets, stdout, connects, writes, opened, returns, seen>>

(***************************************************************************)
(* Option / Result values.                                                 *)
(***************************************************************************)
None == [some |-> FALSE]
Some(v) == [some |-> TRUE, val |-> v]
Ok(v) == [ok |-> TRUE, val |-> v]
Err(e) == [ok |-> FALSE, err |-> e]

\* format!(template, args...): the template and the values put in its holes
Format(template, args) == [text |-> template, args |-> args]

(***************************************************************************)
(* u16::from_str, as used by env::var("PRINTER_PORT") ... p.parse()        *)
(***************************************************************************)
Digits == <<"0", "1", "2", "3", "4", "5", "6", "7", "8", "9">>

IsDigit(c) == \E d \in 1..10 : Digits[d] = c

DigitValue(c) == (CHOOSE d \in 1..10 : Digits[d] = c) - 1

\* the digit loop of from_str_radix for an unsigned type: every character
\* must be a digit, and the accumulator is updated with checked_mul and
\* checked_add, so the parse fails as soon as the value leaves 0..65535
RECURSIVE ParseDigits(_, _)
ParseDigits(s, acc) ==
    IF s = <<>> THEN Some(acc)
    ELSE IF ~IsDigit(Head(s)) THEN None
    ELSE IF acc * 10 > U16Max THEN None
    ELSE IF acc * 10 + DigitValue(Head(s)) > U16Max THEN None
    ELSE ParseDigits(Tail(s), acc * 10 + DigitValue(Head(s)))

ParseU16(s) ==
    IF s = <<>> THEN None
    ELSE IF s = <<"+">> \/ s = <<"-">> THEN None
    ELSE IF Head(s) = "+" THEN ParseDigits(Tail(s), 0)
    ELSE ParseDigits(s, 0)

(***************************************************************************)
(* Standard base64 (general_purpose::STANDARD): the RFC 4648 alphabet,     *)
(* '=' padding required, non-zero trailing bits rejected.                  *)
(***************************************************************************)
Alphabet ==
    <<"A", "B", "C", "D", "E", "F", "G", "H", "I", "J", "K", "L", "M",
      "N", "O", "P", "Q", "R", "S", "T", "U", "V", "W", "X", "Y", "Z",
      "a", "b", "c", "d", "e", "f", "g", "h", "i", "j", "k", "l", "m",
      "n", "o", "p", "q", "r", "s", "t", "u", "v", "w", "x", "y", "z",
      "0", "1", "2", "3", "4", "5", "6", "7", "8", "9", "+", "/">>

Pad == "="

IsSymbol(c) == \E k \in 1..64 : Alphabet[k] = c

Sextet(c) == (CHOOSE k \in 1..64 : Alphabet[k] = c) - 1

\* the bytes held by four symbols
QuadBytes(q) ==
    LET n == Sextet(q[1]) * 262144 + Sextet(q[2]) * 4096
             + Sextet(q[3]) * 64 + Sextet(q[4])
    IN  <<n \div 65536, (n \div 256) % 256, n % 256>>

\* the complete quads before the last chunk: any byte outside the alphabet,
\* '=' included, is an InvalidByte
RECURSIVE DecodeQuads(_)
DecodeQuads(s) ==
    IF s = <<>> THEN Ok(<<>>)
    ELSE IF \E k \in 1..4 : ~IsSymbol(s[k]) THEN Err("InvalidByte")
    ELSE LET rest == DecodeQuads(SubSeq(s, 5, Len(s)))
         IN  IF rest.ok THEN Ok(QuadBytes(SubSeq(s, 1, 4)) \o rest.val)
             ELSE rest

\* DecodeSuffix as an engine that allows trailing bits would compute it
DecodeSuffixTrailingBits(c) ==
    LET n == Len(c)
        firstPad == IF \E k \in 1..n : c[k] = Pad
                    THEN CHOOSE k \in 1..n : c[k] = Pad /\ \A j \in 1..(k - 1) : c[j] # Pad
                    ELSE n + 1
        morsels == firstPad - 1
        padding == n - morsels
    IN  IF \E k \in 1..morsels : ~IsSymbol(c[k]) THEN Err("InvalidByte")
        ELSE IF padding > 0 /\ firstPad <= 2 THEN Err("InvalidByte")
        ELSE IF \E k \in firstPad..n : c[k] # Pad THEN Err("InvalidByte")
        ELSE IF morsels = 1 THEN Err("InvalidLength")
        ELSE IF (morsels + padding) % 4 # 0 THEN Err("InvalidPadding")
        ELSE IF morsels = 2
             THEN Ok(<<Sextet(c[1]) * 4 + Sextet(c[2]) \div 16>>)
        ELSE IF morsels = 3
             THEN Ok(<<Sextet(c[1]) * 4 + Sextet(c[2]) \div 16,
                       (Sextet(c[2]) % 16) * 16 + Sextet(c[3]) \div 4>>)
        ELSE Ok(QuadBytes(c))

\* the last chunk of one to four characters: symbols, then padding
DecodeSuffix(c) ==
    LET n == Len(c)
        firstPad == IF \E k \in 1..n : c[k] = Pad
                    THEN CHOOSE k \in 1..n : c[k] = Pad /\ \A j \in 1..(k - 1) : c[j] # Pad
                    ELSE n + 1
        morsels == firstPad - 1
        padding == n - morsels
    IN  IF \E k \in 1..morsels : ~IsSymbol(c[k]) THEN Err("InvalidByte")
        ELSE IF padding > 0 /\ firstPad <= 2 THEN Err("InvalidByte")
        ELSE IF \E k \in firstPad..n : c[k] # Pad THEN Err("InvalidByte")
        ELSE IF morsels = 1 THEN Err("InvalidLength")
        ELSE IF (morsels + padding) % 4 # 0 THEN Err("InvalidPadding")
        ELSE IF morsels = 2
             THEN IF Sextet(c[2]) % 16 # 0 THEN Err("InvalidLastSymbol")
                  ELSE Ok(<<Sextet(c[1]) * 4 + Sextet(c[2]) \div 16>>)
        ELSE IF morsels = 3
             THEN IF Sextet(c[3]) % 4 # 0 THEN Err("InvalidLastSymbol")
                  ELSE Ok(<<Sextet(c[1]) * 4 + Sextet(c[2]) \div 16,
                            (Sextet(c[2]) % 16) * 16 + Sextet(c[3]) \div 4>>)
        ELSE Ok(QuadBytes(c))

\* general_purpose::STANDARD.decode(&base64_data)
Decode(s) ==
    IF s = <<>> THEN Ok(<<>>)
    ELSE LET tail == IF Len(s) % 4 = 0 THEN 4 ELSE Len(s) % 4
             body == DecodeQuads(SubSeq(s, 1, Len(s) - tail))
             last == DecodeSuffix(SubSeq(s, Len(s) - tail + 1, Len(s)))
         IN  IF ~body.ok THEN body
             ELSE IF ~last.ok THEN last
             ELSE Ok(body.val \o last.val)

(***************************************************************************)
(* The process environment and the file system, as the resolver reads them.*)
(***************************************************************************)
\* env::var(name): Ok(value), or Err(NotPresent), or Err(NotUnicode) when the
\* variable is set to bytes that are not valid Unicode
NotPresent == Err("NotPresent")
NotUnicode == Err("NotUnicode")

\* serde_json::Value
Null == [type |-> "null"]
Bool(b) == [type |-> "bool", b |-> b]
PosInt(n) == [type |-> "number", kind |-> "PosInt", n |-> n]
NegInt(n) == [type |-> "number", kind |-> "NegInt", n |-> n]
Float(whole, frac) == [type |-> "number", kind |-> "Float", n |-> whole, frac |-> frac]
String(s) == [type |-> "string", s |-> s]
Array(items) == [type |-> "array", items |-> items]
Object(fields) == [type |-> "object", fields |-> fields]

\* json["key"]: Null unless json is an object that has the key
Index(json, key) ==
    IF json.type = "object" /\ key \in DOMAIN json.fields
    THEN json.fields[key]
    ELSE Null

as_str(v) == IF v.type = "string" THEN Some(v.s) ELSE None

as_u64(v) == IF v.type = "number" /\ v.kind = "PosInt" THEN Some(v.n) ELSE None

as_bool(v) == IF v.type = "bool" THEN Some(v.b) ELSE None

unwrap_or(opt, default) == IF opt.some THEN opt.val ELSE default

\* a saturating conversion in place of the narrowing cast
CastU16Saturating(n) == IF n > U16Max THEN U16Max ELSE n

\* `as u16`: a narrowing cast keeps the low 16 bits
CastU16(n) == n % (U16Max + 1)

\* defaults that would send to a printer instead of simulating
PrinterConfigDefaultReal ==
    [host |-> DefaultHost, port |-> DefaultPort, simulate |-> FALSE]

\* impl Default for PrinterConfig
PrinterConfigDefault ==
    [host |-> DefaultHost, port |-> DefaultPort, simulate |-> DefaultSimulate]

\* an environment tier that reads PRINTER_SIMULATE without regard to case
EnvTierAnyCase(e, simulate) ==
    [host |-> IF e.host.ok THEN e.host.val ELSE DefaultHost,
     port |-> IF e.port.ok THEN unwrap_or(ParseU16(e.port.val), DefaultPort)
              ELSE DefaultPort,
     simulate |-> (simulate \in {"true", "TRUE", "True"})]

\* Priority 1: the config built from the environment once PRINTER_SIMULATE
\* has been read as `simulate`
EnvTier(e, simulate) ==
    [host |-> IF e.host.ok THEN e.host.val ELSE DefaultHost,
     port |-> IF e.port.ok THEN unwrap_or(ParseU16(e.port.val), DefaultPort)
              ELSE DefaultPort,
     simulate |-> (simulate = "true")]

\* a file tier that lets PRINTER_HOST and PRINTER_PORT override the file
FileTierMergingEnv(json) ==
    [host |-> IF env.host.ok THEN env.host.val
              ELSE unwrap_or(as_str(Index(json, "host")), DefaultHost),
     port |-> IF env.port.ok /\ ParseU16(env.port.val).some
              THEN ParseU16(env.port.val).val
              ELSE CastU16(unwrap_or(as_u64(Index(json, "port")), DefaultPort)),
     simulate |-> unwrap_or(as_bool(Index(json, "simulate")), DefaultSimulate)]

\* Priority 2: the config built from the parsed ~/.chefcloud/printer.json
FileTier(json) ==
    [host |-> unwrap_or(as_str(Index(json, "host")), DefaultHost),
     port |-> CastU16(unwrap_or(as_u64(Index(json, "port")), DefaultPort)),
     simulate |-> unwrap_or(as_bool(Index(json, "simulate")), DefaultSimulate)]

\* whether the file tier is reached with a parsed document: a home directory
\* is known, the path exists, the file reads as text and parses as JSON
FileParses(f) == f.home /\ f.file = "json"

load_printer_config(e, f) ==
    IF e.simulate.ok THEN EnvTier(e, e.simulate.val)
    ELSE IF FileParses(f) THEN FileTier(f.json)
    ELSE PrinterConfigDefault

\* the invocation has not returned yet
NoResult == Err(Format("pending", <<>>))

addr(c) == Format("{}:{}", <<c.host, c.port>>)

InitWith(Envs, Files) ==
    /\ env \in Envs
    /\ fs \in Files
    /\ edits = 0
    /\ pc = [i \in Invocations |-> "idle"]
    /\ base64_data = [i \in Invocations |-> <<>>]
    /\ config = [i \in Invocations |-> PrinterConfigDefault]
    /\ bytes = [i \in Invocations |-> <<>>]
    /\ stream = [i \in Invocations |-> 0]
    /\ result = [i \in Invocations |-> NoResult]
    /\ sockets = <<>>
    /\ stdout = <<>>
    /\ connects = [i \in Invocations |-> 0]
    /\ writes = [i \in Invocations |-> 0]
    /\ opened = [i \in Invocations |-> {}]
    /\ returns = [i \in Invocations |-> 0]
    /\ seen = [i \in Invocations |-> fs]

(***************************************************************************)
(* print_receipt, one action per step.                                     *)
(***************************************************************************)
\* the host application invokes the command with argument d
Invoke(i, d) ==
    /\ pc[i] = "idle"
    /\ pc' = [pc EXCEPT ![i] = "load"]
    /\ base64_data' = [base64_data EXCEPT ![i] = d]
    /\ UNCHANGED <<env, fs, edits, config, bytes, stream, result, sockets,
                   stdout, connects, writes, opened, returns, seen>>

\* let config = load_printer_config();
LoadConfig(i) ==
    /\ pc[i] = "load"
    /\ config' = [config EXCEPT ![i] = load_printer_config(env, fs)]
    /\ pc' = [pc EXCEPT ![i] = "decode"]
    /\ seen' = [seen EXCEPT ![i] = fs]
    /\ UNCHANGED <<env, fs, edits, base64_data, bytes, stream, result, sockets,
                   stdout, connects, writes, opened, returns>>

\* let bytes = STANDARD.decode(&base64_data).map_err(...)?;
DecodePayload(i) ==
    /\ pc[i] = "decode"
    /\ LET r == Decode(base64_data[i])
       IN  \/ /\ r.ok
              /\ bytes' = [bytes EXCEPT ![i] = r.val]
              /\ pc' = [pc EXCEPT ![i] = "branch"]
              /\ UNCHANGED <<result, returns>>
           \/ /\ ~r.ok
              /\ result' = [result EXCEPT ![i] =
                               Err(Format("Failed to decode base64: {}", <<r.err>>))]
              /\ pc' = [pc EXCEPT ![i] = "done"]
              /\ returns' = [returns EXCEPT ![i] = @ + 1]
              /\ UNCHANGED bytes
    /\ UNCHANGED <<env, fs, edits, base64_data, config, stream, sockets,
                   stdout, connects, writes, opened, seen>>

\* the branch taken at `if config.simulate`
TakesSimulateBranch(c) == c.simulate

\* a message that reports the length of the base64 text
SimulatedMessageOfText(i) ==
    Ok(Format("Simulated print: {} bytes", <<Len(base64_data[i])>>))

\* Ok(format!("Simulated print: {} bytes", bytes.len()))
SimulatedMessage(i) == Ok(Format("Simulated print: {} bytes", <<Len(bytes[i])>>))

\* if config.simulate { println!(...); Ok(format!("Simulated print: {} bytes", ..)) }
SimulatePrint(i) ==
    /\ pc[i] = "branch"
    /\ TakesSimulateBranch(config[i])
    /\ stdout' = Append(stdout, Format("PRINT BYTES {}", <<Len(bytes[i])>>))
    /\ result' = [result EXCEPT ![i] = SimulatedMessage(i)]
    /\ returns' = [returns EXCEPT ![i] = @ + 1]
    /\ pc' = [pc EXCEPT ![i] = "done"]
    /\ UNCHANGED <<env, fs, edits, base64_data, config, bytes, stream, sockets,
                   connects, writes, opened, seen>>

ConnectCauses == {"ConnectionRefused"}

\* a failed connect that is tried again
AfterConnectErrorRetry == "branch"

\* where an invocation goes after a failed TcpStream::connect
AfterConnectError == "done"

\* a failed connect that falls back to the simulated confirmation
ConnectErrorFallsBack(i, cause) ==
    Ok(Format("Simulated print: {} bytes", <<Len(bytes[i])>>))

\* format!("Failed to connect to printer at {}: {}", addr, e)
ConnectError(i, cause) ==
    Err(Format("Failed to connect to printer at {}: {}", <<addr(config[i]), cause>>))

\* let mut stream = TcpStream::connect(&addr).map_err(...)?;
Connect(i) ==
    /\ pc[i] = "branch"
    /\ ~TakesSimulateBranch(config[i])
    /\ connects' = [connects EXCEPT ![i] = @ + 1]
    /\ \/ /\ sockets' = Append(sockets, [addr |-> addr(config[i]),
                                         received |-> <<>>, open |-> TRUE])
          /\ stream' = [stream EXCEPT ![i] = Len(sockets) + 1]
          /\ opened' = [opened EXCEPT ![i] = @ \cup {Len(sockets) + 1}]
          /\ pc' = [pc EXCEPT ![i] = "write"]
          /\ UNCHANGED <<result, returns>>
       \/ /\ \E cause \in ConnectCauses :
                result' = [result EXCEPT ![i] = ConnectError(i, cause)]
          /\ returns' = [returns EXCEPT ![i] = @ + 1]
          /\ pc' = [pc EXCEPT ![i] = AfterConnectError]
          /\ UNCHANGED <<sockets, stream, opened>>
    /\ UNCHANGED <<env, fs, edits, base64_data, config, bytes, stdout, writes, seen>>

WriteCauses == {"BrokenPipe"}

\* one connection shared by all invocations: the most recently opened
TargetShared(i) == Len(sockets)

\* the socket an invocation's write_all writes to
Target(i) == stream[i]

\* what write_all(&bytes) hands to the socket when it accepts k bytes
Written(buf, k) == SubSeq(buf, 1, k)

\* the result if a single write() stood in for write_all
WriteResultOfOneWrite(i, k, cause) ==
    Ok(Format("Printed {} bytes to {}", <<Len(bytes[i]), addr(config[i])>>))

\* the result of print_receipt when write_all stopped after k of the bytes
WriteResult(i, k, cause) ==
    IF k = Len(bytes[i])
    THEN Ok(Format("Printed {} bytes to {}", <<Len(bytes[i]), addr(config[i])>>))
    ELSE Err(Format("Failed to send data to printer: {}", <<cause>>))

\* stream.write_all(&bytes).map_err(...)?; Ok(format!("Printed ..."))
\* write_all either hands over the whole buffer, or fails after k < N bytes;
\* `stream` goes out of scope on both paths, which closes the socket
WriteAll(i) ==
    /\ pc[i] = "write"
    /\ writes' = [writes EXCEPT ![i] = @ + 1]
    /\ \E k \in 0..Len(bytes[i]), cause \in WriteCauses :
          /\ sockets' = [sockets EXCEPT
                            ![Target(i)].received = @ \o Written(bytes[i], k),
                            ![stream[i]].open = FALSE]
          /\ result' = [result EXCEPT ![i] = WriteResult(i, k, cause)]
    /\ returns' = [returns EXCEPT ![i] = @ + 1]
    /\ stream' = [stream EXCEPT ![i] = 0]
    /\ pc' = [pc EXCEPT ![i] = "done"]
    /\ UNCHANGED <<env, fs, edits, base64_data, config, bytes, stdout, connects,
                   opened, seen>>

\* an outside actor rewrites, removes or creates ~/.chefcloud/printer.json while
\* the application runs; the resolver reads the file anew on every request
EditConfigFile(Files) ==
    /\ edits < MaxEdits
    /\ \E f \in Files : f # fs /\ fs' = f
    /\ edits' = edits + 1
    /\ UNCHANGED <<env, pc, base64_data, config, bytes, stream, result, sockets,
                   stdout, connects, writes, opened, returns, seen>>

(***************************************************************************)
(* Inputs.                                                                 *)
(***************************************************************************)
\* base64 encoding of a byte string, as a caller of the command produces it
RECURSIVE Encode(_)
Encode(b) ==
    IF b = <<>> THEN <<>>
    ELSE IF Len(b) = 1
         THEN <<Alphabet[b[1] \div 4 + 1], Alphabet[(b[1] % 4) * 16 + 1], Pad, Pad>>
    ELSE IF Len(b) = 2
         THEN <<Alphabet[b[1] \div 4 + 1],
                Alphabet[(b[1] % 4) * 16 + b[2] \div 16 + 1],
                Alphabet[(b[2] % 16) * 4 + 1], Pad>>
    ELSE <<Alphabet[b[1] \div 4 + 1],
           Alphabet[(b[1] % 4) * 16 + b[2] \div 16 + 1],
           Alphabet[(b[2] % 16) * 4 + b[3] \div 64 + 1],
           Alphabet[(b[3] % 64) + 1]>> \o Encode(SubSeq(b, 4, Len(b)))

SeqsUpTo(S, n) == UNION {[1..k -> S] : k \in 0..n}

\* two symbols, the padding character and a character outside the alphabet
InputChars == {"Q", "R", "/", "=", "!"}
ByteSamples == {0, 104, 255}
ByteStrings == SeqsUpTo(ByteSamples, MaxBytes)

\* "aGVsbG8=" encodes "hello"; without its padding it is not valid
HelloBase64 == <<"a", "G", "V", "s", "b", "G", "8", "=">>
HelloNoPad == <<"a", "G", "V", "s", "b", "G", "8">>

DispatcherInputs ==
    SeqsUpTo(InputChars, MaxLen) \cup {Encode(b) : b \in ByteStrings}
        \cup {HelloBase64, HelloNoPad}

\* the requests offered to concurrent invocations: two receipts and a bad string
PayloadBytes == {<<104, 105>>, <<255>>}
Payloads == {Encode(b) : b \in PayloadBytes} \cup {HelloNoPad}

EnvOf(s, h, p) == [simulate |-> s, host |-> h, port |-> p]

PortStrings ==
    { <<"9", "1", "0", "1">>, <<"8", "0">>, <<"0">>, <<"6", "5", "5", "3", "5">>,
      <<"6", "5", "5", "3", "6">>, <<"9", "9", "9", "9", "9">>,
      <<"0", "0", "0", "0", "8", "0">>, <<"+", "8", "0">>, <<"-", "1">>,
      <<"a", "b", "c">>, <<>> }

SimulateValues == {"true", "false", "TRUE", "1", ""}

ResolverEnvs ==
    { EnvOf(s, h, p) :
        s \in {NotPresent, NotUnicode} \cup {Ok(v) : v \in SimulateValues},
        h \in {NotPresent, NotUnicode, Ok("10.0.0.5")},
        p \in {NotPresent, NotUnicode} \cup {Ok(v) : v \in PortStrings} }

Absent == [type |-> "absent"]

\* a JSON object holding the keys that are given a value
ObjectOf(h, p, s) ==
    LET given == [host |-> h, port |-> p, simulate |-> s]
    IN  Object([k \in {x \in DOMAIN given : given[x] # Absent} |-> given[k]])

FileOf(home, file, json) == [home |-> home, file |-> file, json |-> json]

JsonHosts == {Absent, String("192.168.1.50"), PosInt(5)}
JsonPorts ==
    {Absent, PosInt(9101), PosInt(0), PosInt(65535), PosInt(65536), PosInt(99999),
     NegInt(-1), Float(80, 0), String("9101"), Null}
JsonSimulates == {Absent, Bool(TRUE), Bool(FALSE), String("false")}

JsonDocuments ==
    {ObjectOf(h, p, s) : h \in JsonHosts, p \in JsonPorts, s \in JsonSimulates}
        \cup {Null, Array(<<PosInt(1)>>), String("host")}

NoFile == FileOf(TRUE, "absent", Null)

ResolverFiles ==
    {FileOf(FALSE, "absent", Null), NoFile,
     FileOf(TRUE, "unreadable", Null), FileOf(TRUE, "malformed", Null)}
        \cup {FileOf(TRUE, "json", j) : j \in JsonDocuments}

RealModeFile ==
    FileOf(TRUE, "json", ObjectOf(String("192.168.1.50"), PosInt(9101), Bool(FALSE)))
OtherPrinterFile ==
    FileOf(TRUE, "json", ObjectOf(String("192.168.1.51"), Absent, Bool(FALSE)))
SimulateFile ==
    FileOf(TRUE, "json", ObjectOf(Absent, Absent, Bool(TRUE)))

FewEnvs ==
    { EnvOf(NotPresent, NotPresent, NotPresent),
      EnvOf(Ok("true"), Ok("10.0.0.5"), Ok(<<"9", "1", "0", "0">>)),
      EnvOf(Ok("false"), Ok("10.0.0.5"), Ok(<<"9", "1", "0", "0">>)),
      EnvOf(Ok("false"), NotPresent, Ok(<<"8", "0">>)) }

FewFiles == {NoFile, RealModeFile}

\* the contents the config file takes while concurrent requests are served
EditedFiles == {OtherPrinterFile, SimulateFile}

(***************************************************************************)
(* Specifications.                                                         *)
(***************************************************************************)
\* concurrent invocations, with the config file changing under them
Init == InitWith({EnvOf(NotPresent, NotPresent, NotPresent)}, {RealModeFile})

Next ==
    \/ \E i \in Invocations, d \in Payloads : Invoke(i, d)
    \/ \E i \in Invocations : LoadConfig(i)
    \/ \E i \in Invocations : DecodePayload(i)
    \/ \E i \in Invocations : SimulatePrint(i)
    \/ \E i \in Invocations : Connect(i)
    \/ \E i \in Invocations : WriteAll(i)
    \/ EditConfigFile(EditedFiles)

Spec == Init /\ [][Next]_vars

\* one invocation, every input string, a few configurations
InitDispatcher == InitWith(FewEnvs, FewFiles)

NextDispatcher ==
    \/ \E d \in DispatcherInputs : Invoke(1, d)
    \/ LoadConfig(1)
    \/ DecodePayload(1)
    \/ SimulatePrint(1)
    \/ Connect(1)
    \/ WriteAll(1)

SpecDispatcher == InitDispatcher /\ [][NextDispatcher]_vars

\* one invocation, every environment and config file
InitResolver == InitWith(ResolverEnvs, ResolverFiles)

NextResolver ==
    \/ \E d \in {Encode(<<104, 105>>), HelloNoPad} : Invoke(1, d)
    \/ LoadConfig(1)
    \/ DecodePayload(1)
    \/ SimulatePrint(1)
    \/ Connect(1)
    \/ WriteAll(1)

SpecResolver == InitResolver /\ [][NextResolver]_vars

(***************************************************************************)
(* The properties checked, stated without the operators of the model:      *)
(* validity of base64 by the RFC 4648 grammar, decimal reading of a port,  *)
(* the expected configuration field by field.                              *)
(***************************************************************************)
PadCount(s) == Cardinality({k \in 1..Len(s) : s[k] = Pad})

\* RFC 4648 section 4: quads of alphabet characters, the last quad may end in
\* one or two '=', and then the bits that encode nothing are zero
ValidBase64(s) ==
    LET n == Len(s)
    IN  /\ n % 4 = 0
        /\ \A k \in 1..n : IsSymbol(s[k]) \/ (s[k] = Pad /\ k > n - 2)
        /\ \A k \in 1..n : s[k] = Pad => \A j \in k..n : s[j] = Pad
        /\ PadCount(s) = 1 => Sextet(s[n - 1]) % 4 = 0
        /\ PadCount(s) = 2 => Sextet(s[n - 2]) % 16 = 0

DecodedLength(s) == (Len(s) \div 4) * 3 - PadCount(s)

IsPrefix(a, b) == Len(a) <= Len(b) /\ a = SubSeq(b, 1, Len(a))

\* a port string read as a decimal number: digits, with an optional '+'
DecimalDigits(s) == IF s # <<>> /\ Head(s) = "+" THEN Tail(s) ELSE s

IsDecimal(s) ==
    DecimalDigits(s) # <<>> /\ \A k \in 1..Len(DecimalDigits(s)) : IsDigit(DecimalDigits(s)[k])

RECURSIVE DigitsValue(_)
DigitsValue(d) ==
    IF d = <<>> THEN 0
    ELSE DigitsValue(SubSeq(d, 1, Len(d) - 1)) * 10 + DigitValue(d[Len(d)])

ExpectedEnvPort(v) ==
    IF v.ok /\ IsDecimal(v.val) /\ Len(DecimalDigits(v.val)) <= 8
            /\ DigitsValue(DecimalDigits(v.val)) <= 65535
    THEN DigitsValue(DecimalDigits(v.val))
    ELSE 9100

HasKey(json, k) == json.type = "object" /\ k \in DOMAIN json.fields

ExpectedFileHost(json) ==
    IF HasKey(json, "host") /\ json.fields.host.type = "string"
    THEN json.fields.host.s ELSE "127.0.0.1"

ExpectedFilePort(json) ==
    IF HasKey(json, "port") /\ json.fields.port.type = "number"
           /\ json.fields.port.kind = "PosInt"
    THEN json.fields.port.n % 65536 ELSE 9100

ExpectedFileSimulate(json) ==
    IF HasKey(json, "simulate") /\ json.fields.simulate.type = "bool"
    THEN json.fields.simulate.b ELSE TRUE

ExpectedFromFile(json) ==
    [host |-> ExpectedFileHost(json), port |-> ExpectedFilePort(json),
     simulate |-> ExpectedFileSimulate(json)]

BuiltInDefault == [host |-> "127.0.0.1", port |-> 9100, simulate |-> TRUE]

FileUsable == fs.home /\ fs.file = "json"

Resolved(i) == pc[i] \notin {"idle", "load"}

AddrOf(c) == Format("{}:{}", <<c.host, c.port>>)

DecodeErrorText == "Failed to decode base64: {}"
ConnectErrorText == "Failed to connect to printer at {}: {}"
WriteErrorText == "Failed to send data to printer: {}"
SimulatedText == "Simulated print: {} bytes"
PrintedText == "Printed {} bytes to {}"

\* C1: an input that is not valid standard base64 makes the invocation return
\* the "Failed to decode base64" error, whether the resolved config simulates
\* or not; the invocation never attempts a connection and never writes.
C1_InvalidBase64Rejected ==
    \A i \in Invocations :
        (pc[i] # "idle" /\ ~ValidBase64(base64_data[i])) =>
            /\ pc[i] \in {"load", "decode", "done"}
            /\ connects[i] = 0 /\ writes[i] = 0
            /\ opened[i] = {} /\ stream[i] = 0
            /\ sockets = <<>>
            /\ pc[i] = "done" => (~result[i].ok /\ result[i].err.text = DecodeErrorText)

C1_Witness ==
    /\ pc[1] = "done"
    /\ base64_data[1] = <<"Q", "R", "=", "=">>
    /\ ~config[1].simulate
    /\ ~result[1].ok /\ result[1].err.text = DecodeErrorText

\* C2: with simulate = true, a valid base64 input that decodes to N bytes
\* returns "Simulated print: N bytes", N being the number of bytes that were
\* encoded, and no connection is opened whatever host and port are configured.
C2_SimulateReportsLength ==
    \A i \in Invocations :
        (Resolved(i) /\ config[i].simulate /\ ValidBase64(base64_data[i])) =>
            /\ pc[i] # "write"
            /\ connects[i] = 0 /\ opened[i] = {} /\ sockets = <<>>
            /\ pc[i] = "done" =>
                  /\ result[i] = Ok(Format(SimulatedText,
                                           <<DecodedLength(base64_data[i])>>))
                  /\ \A b \in ByteStrings :
                        base64_data[i] = Encode(b) => result[i].val.args = <<Len(b)>>

C2_Witness ==
    /\ pc[1] = "done"
    /\ base64_data[1] = HelloBase64
    /\ config[1].simulate /\ config[1].host = "10.0.0.5"
    /\ result[1] = Ok(Format(SimulatedText, <<5>>))

\* C3 as stated: whenever PRINTER_SIMULATE is set, whatever its value, the
\* config comes from the environment alone: simulate iff the value is "true",
\* host PRINTER_HOST or 127.0.0.1 if unset, port PRINTER_PORT or 9100 if unset.
C3_AsStated ==
    \A i \in Invocations :
        (Resolved(i) /\ env.simulate # NotPresent) =>
            /\ config[i].simulate = (env.simulate = Ok("true"))
            /\ env.host = NotPresent => config[i].host = "127.0.0.1"
            /\ env.host.ok => config[i].host = env.host.val
            /\ env.port = NotPresent => config[i].port = 9100
            /\ (env.port.ok /\ IsDecimal(env.port.val)) =>
                   config[i].port = ExpectedEnvPort(env.port)

\* C3, amended: whenever PRINTER_SIMULATE is set to a value that is valid
\* Unicode, the config comes from the environment alone, whatever the config
\* file holds: simulate iff the value is exactly "true", host PRINTER_HOST or
\* 127.0.0.1 if unset or not valid Unicode, port PRINTER_PORT or 9100 if unset
\* or not valid Unicode.  A PRINTER_SIMULATE that is set but not valid Unicode
\* is treated as unset: the config file, or the defaults, decide.
C3_EnvTierWhenUnicode ==
    \A i \in Invocations :
        /\ (Resolved(i) /\ env.simulate.ok) =>
              /\ config[i].simulate = (env.simulate.val = "true")
              /\ config[i].host = IF env.host.ok THEN env.host.val ELSE "127.0.0.1"
              /\ ~env.port.ok => config[i].port = 9100
              /\ (env.port.ok /\ IsDecimal(env.port.val)) =>
                     config[i].port = ExpectedEnvPort(env.port)
        /\ (Resolved(i) /\ env.simulate = NotUnicode) =>
              config[i] = IF FileUsable THEN ExpectedFromFile(fs.json)
                          ELSE BuiltInDefault

C3_Witness ==
    /\ pc[1] = "done"
    /\ env.simulate = Ok("TRUE") /\ env.host = NotPresent /\ env.port = NotPresent
    /\ FileUsable /\ ExpectedFromFile(fs.json).simulate
    /\ ExpectedFromFile(fs.json).host = "192.168.1.50"
    /\ config[1] = [host |-> "127.0.0.1", port |-> 9100, simulate |-> FALSE]

\* C4: with PRINTER_SIMULATE unset and a config file that parses as JSON, the
\* config comes from the file alone, each field defaulted on its own;
\* PRINTER_HOST and PRINTER_PORT have no effect.
C4_FileTierAlone ==
    \A i \in Invocations :
        (Resolved(i) /\ env.simulate = NotPresent /\ FileUsable) =>
            config[i] = ExpectedFromFile(fs.json)

C4_Witness ==
    /\ pc[1] = "done"
    /\ env.simulate = NotPresent
    /\ env.host = Ok("10.0.0.5") /\ env.port = Ok(<<"8", "0">>)
    /\ FileUsable /\ ~HasKey(fs.json, "host") /\ HasKey(fs.json, "port")
    /\ config[1] = [host |-> "127.0.0.1", port |-> 9101, simulate |-> FALSE]

\* C5: the resolver always yields a fully populated config; with
\* PRINTER_SIMULATE unset and the file absent, unreadable or unparsable, or no
\* home directory, it is exactly {127.0.0.1, 9100, true}; the caller only ever
\* sees decode, connect and write errors, never one from the lookup.
C5_DefaultsNeverFail ==
    \A i \in Invocations :
        /\ pc[i] = "load" => ENABLED LoadConfig(i)
        /\ Resolved(i) =>
              /\ DOMAIN config[i] = {"host", "port", "simulate"}
              /\ config[i].port \in 0..65535
              /\ config[i].simulate \in BOOLEAN
              /\ (env.simulate = NotPresent /\ ~FileUsable) =>
                     config[i] = BuiltInDefault
        /\ (pc[i] = "done" /\ ~result[i].ok) =>
              result[i].err.text \in {DecodeErrorText, ConnectErrorText, WriteErrorText}

C5_Witness ==
    /\ pc[1] = "done"
    /\ env.simulate = NotPresent /\ env.host = Ok("10.0.0.5")
    /\ fs.home /\ fs.file = "malformed"
    /\ config[1] = BuiltInDefault
    /\ result[1] = Ok(Format(SimulatedText, <<2>>))

\* C6: in real mode with a valid payload, a connection that cannot be
\* established gives a connect error naming host:port; nothing is written and
\* the invocation does not fall back to a simulated print.
C6_ConnectErrorIsFinal ==
    \A i \in Invocations :
        (pc[i] = "done" /\ ~config[i].simulate /\ ValidBase64(base64_data[i])
              /\ opened[i] = {}) =>
            /\ connects[i] = 1 /\ writes[i] = 0
            /\ \E cause \in ConnectCauses :
                  result[i] = Err(Format(ConnectErrorText, <<AddrOf(config[i]), cause>>))
            /\ sockets = <<>> /\ stdout = <<>>

C6_Witness ==
    /\ pc[1] = "done"
    /\ config[1] = [host |-> "10.0.0.5", port |-> 9100, simulate |-> FALSE]
    /\ base64_data[1] = HelloBase64
    /\ result[1] = Err(Format(ConnectErrorText,
                              <<Format("{}:{}", <<"10.0.0.5", 9100>>), "ConnectionRefused">>))

\* C7: "Printed N bytes to host:port" is returned only when a connection to
\* host:port was established and all N decoded bytes were written to it,
\* verbatim and in order, with nothing added; a write that does not complete
\* gives a write error, never a success.
C7_PrintedMeansAllWritten ==
    \A i \in Invocations :
        /\ (pc[i] = "done" /\ result[i].ok /\ result[i].val.text = PrintedText) =>
              /\ ValidBase64(base64_data[i]) /\ ~config[i].simulate
              /\ \E k \in opened[i] :
                    /\ sockets[k].addr = AddrOf(config[i])
                    /\ Len(sockets[k].received) = DecodedLength(base64_data[i])
                    /\ result[i].val.args = <<Len(sockets[k].received), AddrOf(config[i])>>
                    /\ \A b \in ByteStrings :
                          base64_data[i] = Encode(b) => sockets[k].received = b
        /\ (pc[i] = "done" /\ opened[i] # {}) =>
              \A k \in opened[i] :
                  Len(sockets[k].received) < DecodedLength(base64_data[i]) =>
                      (~result[i].ok /\ result[i].err.text = WriteErrorText)

C7_Witness ==
    /\ pc[1] = "done"
    /\ base64_data[1] = HelloBase64
    /\ result[1] = Ok(Format(PrintedText, <<5, Format("{}:{}", <<"192.168.1.50", 9101>>)>>))
    /\ sockets = <<[addr |-> Format("{}:{}", <<"192.168.1.50", 9101>>),
                    received |-> <<104, 101, 108, 108, 111>>, open |-> FALSE]>>

\* C8: an invocation calls connect at most once and write_all at most once, a
\* decode, connect or write failure ends it, it returns exactly one result,
\* and when it has returned its connection, if any, is closed.
C8_SingleAttemptSingleResult ==
    \A i \in Invocations :
        /\ connects[i] <= 1 /\ writes[i] <= 1 /\ Cardinality(opened[i]) <= 1
        /\ writes[i] <= Cardinality(opened[i])
        /\ returns[i] = IF pc[i] = "done" THEN 1 ELSE 0
        /\ pc[i] # "done" => result[i] = NoResult
        /\ pc[i] = "done" =>
              /\ result[i] # NoResult
              /\ stream[i] = 0
              /\ \A k \in opened[i] : ~sockets[k].open
              /\ ~result[i].ok =>
                    /\ result[i].err.text = DecodeErrorText =>
                          (connects[i] = 0 /\ writes[i] = 0)
                    /\ result[i].err.text = ConnectErrorText =>
                          (connects[i] = 1 /\ opened[i] = {} /\ writes[i] = 0)

C8_Witness ==
    \E i, j \in Invocations :
        /\ i # j
        /\ pc[i] = "done" /\ ~result[i].ok /\ result[i].err.text = WriteErrorText
        /\ connects[i] = 1 /\ writes[i] = 1 /\ returns[i] = 1
        /\ \E k \in opened[i] : ~sockets[k].open /\ Len(sockets[k].received) = 1
        /\ pc[j] = "done" /\ ~result[j].ok /\ result[j].err.text = ConnectErrorText
        /\ connects[j] = 1 /\ writes[j] = 0

\* the config the resolver is expected to give when it finds config file f
ExpectedConfig(f) ==
    IF env.simulate.ok
    THEN [host |-> IF env.host.ok THEN env.host.val ELSE "127.0.0.1",
          port |-> ExpectedEnvPort(env.port),
          simulate |-> (env.simulate.val = "true")]
    ELSE IF f.home /\ f.file = "json" THEN ExpectedFromFile(f.json)
    ELSE BuiltInDefault

\* the result an invocation is expected to return, read from its own payload,
\* its own config and its own connection
OwnResultOk(i) ==
    IF ~ValidBase64(base64_data[i])
    THEN ~result[i].ok /\ result[i].err.text = DecodeErrorText
    ELSE IF config[i].simulate
    THEN result[i] = Ok(Format(SimulatedText, <<DecodedLength(base64_data[i])>>))
    ELSE IF opened[i] = {}
    THEN ~result[i].ok /\ result[i].err.text = ConnectErrorText
            /\ result[i].err.args[1] = AddrOf(config[i])
    ELSE \A k \in opened[i] :
            IF Len(sockets[k].received) = DecodedLength(base64_data[i])
            THEN result[i] = Ok(Format(PrintedText,
                                       <<DecodedLength(base64_data[i]), AddrOf(config[i])>>))
            ELSE ~result[i].ok /\ result[i].err.text = WriteErrorText

C10_Isolated ==
    /\ \A k \in 1..Len(sockets) :
          Cardinality({i \in Invocations : k \in opened[i]}) = 1
    /\ \A i \in Invocations :
          /\ \A k \in opened[i] :
                /\ sockets[k].addr = AddrOf(config[i])
                /\ \E b \in PayloadBytes :
                      base64_data[i] = Encode(b) /\ IsPrefix(sockets[k].received, b)
                /\ pc[i] = "write" => (sockets[k].open /\ sockets[k].received = <<>>)
          /\ pc[i] = "done" => OwnResultOk(i)

\* C10: concurrent invocations share nothing: each resolves its config from
\* the environment and file as they are when its own resolver runs, each
\* connection is opened by one invocation and receives only bytes of that
\* invocation's decoded payload, under every interleaving, and each result
\* follows from the invocation's own payload, config and connection.
C10_ConcurrentInvocationsIndependent ==
    /\ C10_Isolated
    /\ \A i \in Invocations : Resolved(i) => config[i] = ExpectedConfig(seen[i])

C10_Witness ==
    \E i, j \in Invocations :
        /\ i # j
        /\ base64_data[i] # base64_data[j]
        /\ config[i] # config[j] /\ ~config[i].simulate /\ ~config[j].simulate
        /\ seen[i] # fs
        /\ stream[j] # 0 /\ pc[j] = "write"
        /\ pc[i] = "done" /\ result[i].ok
        /\ \E k \in opened[i] : k > stream[j] /\ sockets[k].received = <<104, 105>>

\* C9: the resolved port is always in 0..65535.  File tier: a non-negative
\* integer p gives p mod 65536 (99999 gives 34463); an absent, negative or
\* non-integer port gives 9100.  Environment tier: PRINTER_PORT gives its value
\* if it reads as a decimal integer in 0..65535 and 9100 otherwise (99999 gives
\* 9100).
C9_PortResolution ==
    \A i \in Invocations :
        /\ pc[i] = "load" => ENABLED LoadConfig(i)
        /\ Resolved(i) =>
              /\ config[i].port \in 0..65535
              /\ env.simulate.ok =>
                    /\ config[i].port = ExpectedEnvPort(env.port)
                    /\ env.port = Ok(<<"9", "9", "9", "9", "9">>) => config[i].port = 9100
                    /\ env.port = Ok(<<"6", "5", "5", "3", "5">>) => config[i].port = 65535
              /\ (~env.simulate.ok /\ FileUsable) =>
                    /\ config[i].port = ExpectedFilePort(fs.json)
                    /\ Index(fs.json, "port") = PosInt(99999) => config[i].port = 34463
                    /\ Index(fs.json, "port") \in {Null, NegInt(-1), Float(80, 0)} =>
                           config[i].port = 9100

C9_Witness ==
    /\ pc[1] = "done"
    /\ env.simulate = NotPresent /\ FileUsable
    /\ Index(fs.json, "port") = PosInt(99999)
    /\ config[1].port = 34463 /\ ~config[1].simulate
    /\ result[1].ok /\ result[1].val.text = PrintedText

=============================================================================
